---- MODULE Spec2Model ----
(***************************************************************************)
(* Model of pkg/seeder/artifacts/oras/oras_provider.go: the ORAS artifact  *)
(* provider.  A provider serves concurrent Get calls; each Get creates a   *)
(* temporary file store directory under fileStoreBasePath, copies the      *)
(* remote graph of tag "latest" into it, selects one successor of the root *)
(* and returns a stream over it (or nil).  Streams are closed by callers.  *)
(*                                                                         *)
(* The file system is the function fs: a directory name under the base     *)
(* path maps to the Get call that created the directory now standing       *)
(* there, or to 0 when no such directory exists.  os.MkdirTemp picks any   *)
(* name that does not exist at the moment of the call, so a name may be    *)
(* used again once its directory was removed.                              *)
(*                                                                         *)
(* Specifications:                                                         *)
(*   Spec          Get, Read and Close on a constructed provider, with     *)
(*                 os.RemoveAll succeeding                                 *)
(*   SpecFault     the same, with os.RemoveAll allowed to fail             *)
(*   SpecProvider  the constructor Provider, then Spec's operations        *)
(*   SpecCreds     the credential function of the auth client              *)
(*   SpecRepoName  the repository name built from prefix and artifact      *)
(***************************************************************************)
EXTENDS Integers, Sequences, FiniteSets, TLC

(* ---- bounds ---------------------------------------------------------- *)
NCalls    == 2     \* number of Get calls made on the provider
NNames    == 2     \* size of the pool of random directory names
MaxNodes  == 3     \* longest successor list of a remote graph
MaxCloses == 2     \* Close calls a caller makes on one returned stream
MaxArtLen == 3     \* longest artifact name given to the name builder

Calls == 1..NCalls
Names == 1..NNames

(* ---- program constants ----------------------------------------------- *)
\* v1.MediaTypeImageLayer, and a media type that differs from it
MediaTypeImageLayer     == "application/vnd.oci.image.layer.v1.tar"
MediaTypeImageLayerGzip == "application/vnd.oci.image.layer.v1.tar+gzip"
MediaTypes == {MediaTypeImageLayer, MediaTypeImageLayerGzip}

\* successor lists (media type of each successor, in enumeration order)
Graphs == UNION {[1..n -> MediaTypes] : n \in 0..MaxNodes}

\* strings are sequences of characters
UrlPaths  == {<<>>, <<"/", "p">>}
Artifacts == {<<"a">>, <<"/", "a">>, <<"X">>}

\* registryURL arguments of Provider
UrlHost      == <<"o", "c", "i", ":", "/", "/", "h">>
UrlHostPath  == <<"o", "c", "i", ":", "/", "/", "h", "/", "p">>
UrlHttp      == <<"h", "t", "t", "p", ":", "/", "/", "h", "/", "p">>
UrlNoScheme  == <<"h", "/", "p">>
UrlBad       == <<":", "/", "/", "h">>
UrlZone      == <<"o", "c", "i", ":", "/", "/", "[", ":", ":", "1", "%", "2", "5", "e", "]", "/", "p">>
URLs == {UrlHost, UrlHostPath, UrlHttp, UrlNoScheme, UrlBad, UrlZone}

\* fileStoreBasePath arguments of Provider
BasePaths == {<<>>, <<"/", "t">>}

\* messages of the log calls, in source order
LogRepo      == "oras: getting repository reference failed"
LogMkdir     == "oras: failed to create temporary directory for file store"
LogCleanup   == "oras: cleaning up temporary file store path"
LogNew       == "oras: failed to create file store"
LogCopy      == "oras: copying artifact into memory failed"
LogSucc      == "oras: fetching successors failed"
LogFetch     == "oras: fetch layer content failed"
LogNoLayer   == "oras: no image layers in artifact"
LogCloseCleanup ==
    "oras: ReadCloser: cleaning up temporary file store path on Close"

VARIABLES
    urlPath,        \* op.url.Path
    opCtxDone,      \* op.ctx is cancelled
    remote,         \* successor list the registry holds for tag "latest"
    faulty,         \* the file system may refuse os.RemoveAll
    fs,             \* directory name -> creating call, 0 = no directory
    pc,             \* position of each Get call
    repoName,       \* local repoName of each Get call
    ctxDone,        \* the call's ctx became done while the call ran
    fileStorePath,  \* local fileStorePath of each Get call, 0 = none yet
    nodes,          \* local nodes of each Get call
    rc,             \* value returned by each Get call
    exit,           \* the return statement each Get call left through
    closes,         \* number of Close calls made on the returned stream
    closeRet,       \* return value of the last Close on the returned stream
    readRet,        \* outcome of the last Read on the returned stream
    log,            \* messages logged by each Get call and its stream
    steps,          \* library calls each Get call and its stream made
    cache,          \* hosts with a token in the auth client's cache
    cfg,            \* arguments Provider was called with
    built,          \* "no": Provider not called, "ok": provider, "err"
    opHost,         \* op.url.Host, the host op.registry is bound to
    basePath,       \* op.fileStoreBasePath
    opCreds,        \* op.username, password, accessToken, refreshToken
    credTarget,     \* target of the last call of the credential function
    credOut,        \* credential it returned
    nameIn,         \* prefix and artifact given to the name builder
    nameOut         \* repository names built for artifact and "/"+artifact

vars == <<urlPath, opCtxDone, remote, faulty, fs, pc, repoName, ctxDone,
          fileStorePath, nodes, rc, exit, closes, closeRet, readRet, log,
          steps, cache, cfg, built, opHost, basePath, opCreds, credTarget,
          credOut, nameIn, nameOut>>

\* the provider's fields
opFields == <<urlPath, opHost, basePath, opCreds, built, cfg>>

\* what no operation on a constructed provider changes
provider == <<urlPath, remote, faulty, cfg, built, opHost, basePath,
              opCreds, credTarget, credOut, nameIn, nameOut>>

Min(S) == CHOOSE x \in S : \A y \in S : x <= y
Max(S) == CHOOSE x \in S : \A y \in S : x >= y

(* ---- returned values ------------------------------------------------- *)
\* kind: "nil" (absent), "raw" (the io.ReadCloser of fileStore.Fetch),
\*       "orc" (*orasReadCloser wrapping it)
\* node: index of the successor the stream reads, file: the underlying
\* stream is an *os.File (else an in-memory reader with a no-op Close),
\* open: the underlying stream has not been closed,
\* path: orasReadCloser.fileStorePath (0 for the other kinds)
Nil == [kind |-> "nil", node |-> 0, file |-> FALSE, open |-> FALSE, path |-> 0]

RawStream(i, f) ==
    [kind |-> "raw", node |-> i, file |-> f, open |-> TRUE, path |-> 0]

OrasReadCloser(p, i, f) ==
    [kind |-> "orc", node |-> i, file |-> f, open |-> TRUE, path |-> p]

(* ---- repository name ------------------------------------------------- *)
RECURSIVE Split(_)
\* the elements of s between "/" separators
Split(s) ==
    LET J == {j \in 1..Len(s) : s[j] = "/"} IN
    IF J = {} THEN <<s>>
    ELSE <<SubSeq(s, 1, Min(J) - 1)>> \o Split(SubSeq(s, Min(J) + 1, Len(s)))

RECURSIVE CleanElems(_, _, _)
\* path.Clean over the elements es with the output elements out so far:
\* empty and "." elements are dropped, ".." removes the element before it,
\* is dropped at the root and is kept in front of a relative path
CleanElems(es, out, rooted) ==
    IF es = <<>> THEN out
    ELSE LET e == Head(es) IN
         IF e = <<>> \/ e = <<".">> THEN CleanElems(Tail(es), out, rooted)
         ELSE IF e = <<".", ".">>
         THEN IF out # <<>> /\ out[Len(out)] # <<".", ".">>
              THEN CleanElems(Tail(es), SubSeq(out, 1, Len(out) - 1), rooted)
              ELSE IF rooted THEN CleanElems(Tail(es), out, rooted)
              ELSE CleanElems(Tail(es), Append(out, e), rooted)
         ELSE CleanElems(Tail(es), Append(out, e), rooted)

RECURSIVE JoinElems(_)
JoinElems(es) ==
    IF es = <<>> THEN <<>>
    ELSE IF Len(es) = 1 THEN es[1]
    ELSE es[1] \o <<"/">> \o JoinElems(Tail(es))

\* path.Clean
Clean(s) ==
    IF s = <<>> THEN <<".">>
    ELSE LET rooted == s[1] = "/"
             out == JoinElems(CleanElems(Split(s), <<>>, rooted))
         IN IF rooted THEN <<"/">> \o out
            ELSE IF out = <<>> THEN <<".">> ELSE out

\* path.Join of two elements: empty elements are ignored
Join(a, b) ==
    IF a = <<>> /\ b = <<>> THEN <<>>
    ELSE IF a = <<>> THEN Clean(b)
    ELSE IF b = <<>> THEN Clean(a)
    ELSE Clean(a \o <<"/">> \o b)

RECURSIVE TrimLeft(_)
\* strings.TrimLeft(s, "/")
TrimLeft(s) ==
    IF s # <<>> /\ s[1] = "/" THEN TrimLeft(Tail(s)) ELSE s

\* RepoName without the strings.TrimLeft
RepoNameNoTrim(prefix, a) == Join(prefix, a)

RepoName(prefix, a) == TrimLeft(Join(prefix, a))

\* registry.Reference.ValidateRepository: lower-case path components
LowerChars == {"a", "p"}
ValidRepository(s) ==
    /\ s # <<>>
    /\ s[1] # "/"
    /\ s[Len(s)] # "/"
    /\ \A i \in 1..Len(s) : s[i] \in LowerChars \cup {"/"}
    /\ \A i \in 1..(Len(s) - 1) : ~(s[i] = "/" /\ s[i + 1] = "/")

(* ---- Provider -------------------------------------------------------- *)
SchemeLetters == {"o", "c", "i", "h", "t", "p"}
SchemeOthers  == {"1", "2", "5", "."}

RECURSIVE GetScheme(_, _)
\* url.getScheme from index i: the scheme before the first ":" and the
\* rest after it; no scheme when another character comes first; an error
\* when the URL starts with ":"
GetScheme(u, i) ==
    IF i > Len(u) THEN [err |-> FALSE, scheme |-> <<>>, rest |-> u]
    ELSE IF u[i] \in SchemeLetters THEN GetScheme(u, i + 1)
    ELSE IF u[i] \in SchemeOthers
    THEN IF i = 1 THEN [err |-> FALSE, scheme |-> <<>>, rest |-> u]
         ELSE GetScheme(u, i + 1)
    ELSE IF u[i] = ":"
    THEN IF i = 1 THEN [err |-> TRUE, scheme |-> <<>>, rest |-> u]
         ELSE [err |-> FALSE, scheme |-> SubSeq(u, 1, i - 1),
               rest |-> SubSeq(u, i + 1, Len(u))]
    ELSE [err |-> FALSE, scheme |-> <<>>, rest |-> u]

\* index of the first "%25" in s, 0 when there is none
ZoneAt(s) ==
    LET J == {j \in 1..(Len(s) - 2) :
                 s[j] = "%" /\ s[j + 1] = "2" /\ s[j + 2] = "5"}
    IN IF J = {} THEN 0 ELSE Min(J)

\* url.parseHost: a bracketed literal needs its "]" and has the "%25" of
\* its zone unescaped to "%"; elsewhere "%" is an invalid escape
ParseHost(a) ==
    IF a # <<>> /\ a[1] = "["
    THEN IF a[Len(a)] # "]" THEN [err |-> TRUE, host |-> <<>>]
         ELSE LET z == ZoneAt(a) IN
              IF z = 0 THEN [err |-> FALSE, host |-> a]
              ELSE [err |-> FALSE,
                    host |-> SubSeq(a, 1, z) \o SubSeq(a, z + 3, Len(a))]
    ELSE IF \E j \in 1..Len(a) : a[j] = "%" THEN [err |-> TRUE, host |-> <<>>]
    ELSE [err |-> FALSE, host |-> a]

\* url.Parse
Parse(u) ==
    LET g == GetScheme(u, 1)
        r == g.rest
        NoURL == [err |-> TRUE, scheme |-> <<>>, host |-> <<>>, path |-> <<>>]
    IN IF g.err THEN NoURL
       ELSE IF Len(r) >= 2 /\ r[1] = "/" /\ r[2] = "/"
       THEN LET J == {j \in 3..Len(r) : r[j] = "/"}
                k == IF J = {} THEN Len(r) + 1 ELSE Min(J)
                h == ParseHost(SubSeq(r, 3, k - 1))
            IN IF h.err THEN NoURL
               ELSE [err |-> FALSE, scheme |-> g.scheme, host |-> h.host,
                     path |-> SubSeq(r, k, Len(r))]
       ELSE IF g.scheme # <<>> /\ (r = <<>> \/ r[1] # "/")
       THEN [err |-> FALSE, scheme |-> g.scheme, host |-> <<>>, path |-> <<>>]
       ELSE [err |-> FALSE, scheme |-> g.scheme, host |-> <<>>, path |-> r]

\* remote.NewRegistry(host): the registry reference is validated by parsing
\* "dummy://" + host and comparing hosts, which a "%" in host defeats
ValidRegistry(h) == \A j \in 1..Len(h) : h[j] # "%"

OciScheme == <<"o", "c", "i">>

\* Provider without the test of the URL scheme
ProviderResultAnyScheme(u, b) ==
    LET p == Parse(u) IN
    IF b = <<>> THEN [err |-> "basepath", host |-> <<>>, path |-> <<>>]
    ELSE IF p.err THEN [err |-> "parse", host |-> <<>>, path |-> <<>>]
    ELSE IF ~ValidRegistry(p.host)
    THEN [err |-> "client", host |-> <<>>, path |-> <<>>]
    ELSE [err |-> "", host |-> p.host, path |-> p.path]

\* what Provider(ctx, u, b) returns: the error ("" for nil) and, for a
\* provider, op.url.Host and op.url.Path
ProviderResult(u, b) ==
    LET p == Parse(u) IN
    IF b = <<>> THEN [err |-> "basepath", host |-> <<>>, path |-> <<>>]
    ELSE IF p.err THEN [err |-> "parse", host |-> <<>>, path |-> <<>>]
    ELSE IF p.scheme # OciScheme
    THEN [err |-> "scheme", host |-> <<>>, path |-> <<>>]
    ELSE IF ~ValidRegistry(p.host)
    THEN [err |-> "client", host |-> <<>>, path |-> <<>>]
    ELSE [err |-> "", host |-> p.host, path |-> p.path]

NoCfg == [url |-> <<>>, base |-> <<>>]

\* auth.EmptyCredential
EmptyCredential ==
    [username |-> "", password |-> "", accessToken |-> "",
     refreshToken |-> ""]

\* the constructor
ProviderNew(u, b) ==
    /\ built = "no"
    /\ cfg' = [url |-> u, base |-> b]
    /\ LET p == ProviderResult(u, b) IN
       IF p.err = ""
       THEN /\ built' = "ok"
            /\ opHost' = p.host
            /\ urlPath' = p.path
            /\ basePath' = b
       ELSE /\ built' = "err"
            /\ UNCHANGED <<opHost, urlPath, basePath>>
    /\ UNCHANGED <<opCtxDone, remote, faulty, fs, pc, repoName, ctxDone,
                   fileStorePath, nodes, rc, exit, closes, closeRet, readRet,
                   log, steps, cache, opCreds, credTarget, credOut, nameIn,
                   nameOut>>

(* ---- credentials ----------------------------------------------------- *)
\* the creds closure without the comparison of target and host
CredsAnyTarget(k, h, target) ==
    IF k.username # "" \/ k.password # "" \/ k.accessToken # ""
       \/ k.refreshToken # ""
    THEN k
    ELSE EmptyCredential

\* the creds closure of Provider, for provider credentials k and host h
Creds(k, h, target) ==
    IF k.username # "" \/ k.password # "" \/ k.accessToken # ""
       \/ k.refreshToken # ""
    THEN IF target = h THEN k ELSE EmptyCredential
    ELSE EmptyCredential

AllCreds ==
    [username : {"", "user"}, password : {"", "pass"},
     accessToken : {"", "at"}, refreshToken : {"", "rt"}]

\* registry URLs of the providers asked for credentials, and the targets
\* asked about
CredUrls == {UrlHost, <<"o", "c", "i", ":", "/", "/", "g">>}
Targets  == {<<"h">>, <<"g">>, <<"h", ":", "5">>}

\* the auth client asks for the credential of a target
CredsCall(t) ==
    /\ built = "ok"
    /\ credTarget' = t
    /\ credOut' = Creds(opCreds, opHost, t)
    /\ UNCHANGED <<urlPath, opCtxDone, remote, faulty, fs, pc, repoName,
                   ctxDone, fileStorePath, nodes, rc, exit, closes, closeRet,
                   readRet, log, steps, cache, cfg, built, opHost, basePath,
                   opCreds, nameIn, nameOut>>

(* ---- name builder ---------------------------------------------------- *)
NameChars == {"/", ".", "a"}
NameStrings == UNION {[1..n -> NameChars] : n \in 0..MaxArtLen}

\* repoName as Get builds it, for an artifact and for "/" + artifact
BuildNames ==
    /\ nameOut = <<>>
    /\ nameOut' = <<RepoName(nameIn.prefix, nameIn.artifact),
                    RepoName(nameIn.prefix, <<"/">> \o nameIn.artifact)>>
    /\ UNCHANGED <<urlPath, opCtxDone, remote, faulty, fs, pc, repoName,
                   ctxDone, fileStorePath, nodes, rc, exit, closes, closeRet,
                   readRet, log, steps, cache, cfg, built, opHost, basePath,
                   opCreds, credTarget, credOut, nameIn>>

(* ---- file system ----------------------------------------------------- *)
\* os.RemoveAll(p): removes whatever directory stands at p; nil when none
RemoveAll(f, p) == [f EXCEPT ![p] = 0]

\* outcomes of one os.RemoveAll call: TRUE = removed, FALSE = failed
RemoveOutcomes == IF faulty THEN BOOLEAN ELSE {TRUE}

\* the store a call created still stands
StoreExists(c) == fileStorePath[c] # 0 /\ fs[fileStorePath[c]] = c

(* ---- Get ------------------------------------------------------------- *)
Steps0 ==
    [repo |-> 0, mkdir |-> 0, copy |-> 0, copied |-> FALSE, fetch |-> 0,
     fetchFail |-> 0, rm |-> 0, rmFail |-> 0]

\* one more fileStore.Fetch call in st, with outcome ok
Fetched(st, ok) ==
    [st EXCEPT !.fetch = @ + 1, !.fetchFail = IF ok THEN @ ELSE @ + 1]

\* one more os.RemoveAll call in st, with outcome ok
Removal(st, ok) ==
    [st EXCEPT !.rm = @ + 1, !.rmFail = IF ok THEN @ ELSE @ + 1]

\* the log.L().Error message of the return statement e, <<>> when the
\* statement logs nothing
ErrorLog(e) ==
    CASE e = "repo"    -> <<LogRepo>>
      [] e = "mkdir"   -> <<LogMkdir>>
      [] e = "new"     -> <<LogNew>>
      [] e = "copy"    -> <<LogCopy>>
      [] e = "succ"    -> <<LogSucc>>
      [] e = "fetch"   -> <<LogFetch>>
      [] e = "nolayer" -> <<LogNoLayer>>
      [] OTHER         -> <<>>

\* DeferredCleanup with the test written as rc != nil
DeferredCleanupInverted(f, p, r, ok) ==
    IF r.kind # "nil" /\ ok THEN RemoveAll(f, p) ELSE f

\* deferred cleanup of Get (registered once MkdirTemp succeeded): the file
\* system after Get returns r, removal outcome ok
DeferredCleanup(f, p, r, ok) ==
    IF r.kind = "nil" /\ ok THEN RemoveAll(f, p) ELSE f

\* a return statement of Get before the defer is registered; st are the
\* call's steps up to the return
ReturnEarly(c, e, st) ==
    /\ pc' = [pc EXCEPT ![c] = "done"]
    /\ rc' = [rc EXCEPT ![c] = Nil]
    /\ exit' = [exit EXCEPT ![c] = e]
    /\ log' = [log EXCEPT ![c] = @ \o ErrorLog(e)]
    /\ steps' = [steps EXCEPT ![c] = st]
    /\ UNCHANGED fs

\* a return statement of Get after the defer is registered: the deferred
\* function logs and calls os.RemoveAll when rc == nil
Return(c, r, e, st) ==
    /\ pc' = [pc EXCEPT ![c] = "done"]
    /\ rc' = [rc EXCEPT ![c] = r]
    /\ exit' = [exit EXCEPT ![c] = e]
    /\ \E ok \in RemoveOutcomes :
           /\ fs' = DeferredCleanup(fs, fileStorePath[c], r, ok)
           /\ IF r.kind = "nil"
              THEN /\ log' = [log EXCEPT ![c] = @ \o ErrorLog(e) \o <<LogCleanup>>]
                   /\ steps' = [steps EXCEPT ![c] = Removal(st, ok)]
              ELSE /\ ok
                   /\ log' = [log EXCEPT ![c] = @ \o ErrorLog(e)]
                   /\ steps' = [steps EXCEPT ![c] = st]

\* GetStart that stores the joined path back into op.url.Path
GetStartKeepsPath(c, a) ==
    /\ built = "ok"
    /\ pc[c] = "idle"
    /\ pc' = [pc EXCEPT ![c] = "repo"]
    /\ repoName' = [repoName EXCEPT ![c] = RepoName(urlPath, a)]
    /\ urlPath' = Join(urlPath, a)
    /\ ctxDone' = [ctxDone EXCEPT ![c] = opCtxDone]
    /\ UNCHANGED <<remote, faulty, cfg, built, opHost, basePath, opCreds,
                   credTarget, credOut, nameIn, nameOut, opCtxDone, fs,
                   fileStorePath, nodes, rc, exit, closes, closeRet, readRet,
                   log, steps, cache>>

\* entry: context.WithTimeout(op.ctx, 60s); repoName from op.url.Path and
\* the artifact argument
GetStart(c, a) ==
    /\ built = "ok"
    /\ pc[c] = "idle"
    /\ pc' = [pc EXCEPT ![c] = "repo"]
    /\ repoName' = [repoName EXCEPT ![c] = RepoName(urlPath, a)]
    /\ ctxDone' = [ctxDone EXCEPT ![c] = opCtxDone]
    /\ UNCHANGED <<provider, opCtxDone, fs, fileStorePath, nodes, rc, exit,
                   closes, closeRet, readRet, log, steps, cache>>

\* Repository with the error of op.registry.Repository ignored
RepositoryNoCheck(c) ==
    /\ pc[c] = "repo"
    /\ pc' = [pc EXCEPT ![c] = "mkdir"]
    /\ steps' = [steps EXCEPT ![c].repo = @ + 1]
    /\ UNCHANGED <<provider, opCtxDone, repoName, ctxDone, fileStorePath,
                   nodes, closes, closeRet, readRet, cache, fs, rc, exit,
                   log>>

\* op.registry.Repository(ctx, repoName)
Repository(c) ==
    /\ pc[c] = "repo"
    /\ LET st == [steps[c] EXCEPT !.repo = @ + 1] IN
       IF ValidRepository(repoName[c])
       THEN /\ pc' = [pc EXCEPT ![c] = "mkdir"]
            /\ steps' = [steps EXCEPT ![c] = st]
            /\ UNCHANGED <<fs, rc, exit, log>>
       ELSE ReturnEarly(c, "repo", st)
    /\ UNCHANGED <<provider, opCtxDone, repoName, ctxDone, fileStorePath,
                   nodes, closes, closeRet, readRet, cache>>

\* os.MkdirTemp(op.fileStoreBasePath, "oras-provider-file-store-*")
MkdirTemp(c) ==
    /\ pc[c] = "mkdir"
    /\ LET st == [steps[c] EXCEPT !.mkdir = @ + 1] IN
       \/ \E n \in Names :
            /\ fs[n] = 0
            /\ fs' = [fs EXCEPT ![n] = c]
            /\ fileStorePath' = [fileStorePath EXCEPT ![c] = n]
            /\ pc' = [pc EXCEPT ![c] = "new"]
            /\ steps' = [steps EXCEPT ![c] = st]
            /\ UNCHANGED <<rc, exit, log>>
       \/ /\ ReturnEarly(c, "mkdir", st)
          /\ UNCHANGED fileStorePath
    /\ UNCHANGED <<provider, opCtxDone, repoName, ctxDone, nodes, closes,
                   closeRet, readRet, cache>>

\* FileNew with the defer registered after file.New instead of before it
FileNewBeforeDefer(c) ==
    /\ pc[c] = "new"
    /\ \/ /\ pc' = [pc EXCEPT ![c] = "copy"]
          /\ UNCHANGED <<fs, rc, exit, log, steps>>
       \/ ReturnEarly(c, "new", steps[c])
    /\ UNCHANGED <<provider, opCtxDone, repoName, ctxDone, fileStorePath,
                   nodes, closes, closeRet, readRet, cache>>

\* file.New(fileStorePath)
FileNew(c) ==
    /\ pc[c] = "new"
    /\ \/ /\ pc' = [pc EXCEPT ![c] = "copy"]
          /\ UNCHANGED <<fs, rc, exit, log, steps>>
       \/ Return(c, Nil, "new", steps[c])
    /\ UNCHANGED <<provider, opCtxDone, repoName, ctxDone, fileStorePath,
                   nodes, closes, closeRet, readRet, cache>>

\* Copy that goes on to the successors although oras.Copy failed
CopyIgnoresError(c) ==
    /\ pc[c] = "copy"
    /\ \E ok \in BOOLEAN :
          /\ ok => ~ctxDone[c]
          /\ steps' = [steps EXCEPT ![c].copy = @ + 1, ![c].copied = ok]
    /\ pc' = [pc EXCEPT ![c] = "succ"]
    /\ cache' \in {cache, cache \cup {opHost}}
    /\ UNCHANGED <<provider, opCtxDone, repoName, ctxDone, fileStorePath,
                   nodes, closes, closeRet, readRet, fs, rc, exit, log>>

\* Copy that calls oras.Copy once more after a first failure
CopyRetries(c) ==
    /\ pc[c] = "copy"
    /\ LET st == [steps[c] EXCEPT !.copy = @ + 1] IN
       \/ /\ ~ctxDone[c]
          /\ pc' = [pc EXCEPT ![c] = "succ"]
          /\ steps' = [steps EXCEPT ![c] = [st EXCEPT !.copied = TRUE]]
          /\ UNCHANGED <<fs, rc, exit, log>>
       \/ /\ steps[c].copy = 0
          /\ steps' = [steps EXCEPT ![c] = st]
          /\ UNCHANGED <<fs, pc, rc, exit, log>>
       \/ /\ steps[c].copy > 0
          /\ Return(c, Nil, "copy", st)
    /\ cache' \in {cache, cache \cup {opHost}}
    /\ UNCHANGED <<provider, opCtxDone, repoName, ctxDone, fileStorePath,
                   nodes, closes, closeRet, readRet>>

\* oras.Copy(ctx, src, "latest", fileStore, "latest", ...): fails when ctx
\* is done, and may fail for network, auth or registry reasons; its
\* requests go through the auth client, which may cache a token
Copy(c) ==
    /\ pc[c] = "copy"
    /\ LET st == [steps[c] EXCEPT !.copy = @ + 1] IN
       \/ /\ ~ctxDone[c]
          /\ pc' = [pc EXCEPT ![c] = "succ"]
          /\ steps' = [steps EXCEPT ![c] = [st EXCEPT !.copied = TRUE]]
          /\ UNCHANGED <<fs, rc, exit, log>>
       \/ Return(c, Nil, "copy", st)
    /\ cache' \in {cache, cache \cup {opHost}}
    /\ UNCHANGED <<provider, opCtxDone, repoName, ctxDone, fileStorePath,
                   nodes, closes, closeRet, readRet>>

\* content.Successors(ctx, fileStore, rootDesc)
Successors(c) ==
    /\ pc[c] = "succ"
    /\ \/ /\ nodes' = [nodes EXCEPT ![c] = remote]
          /\ pc' = [pc EXCEPT ![c] = "select"]
          /\ UNCHANGED <<fs, rc, exit, log, steps>>
       \/ /\ Return(c, Nil, "succ", steps[c])
          /\ UNCHANGED nodes
    /\ UNCHANGED <<provider, opCtxDone, repoName, ctxDone, fileStorePath,
                   closes, closeRet, readRet, cache>>

RECURSIVE PrefixImageLayer(_, _)
\* FirstImageLayer with the media type compared by prefix, so that the
\* gzip layer type matches too
PrefixImageLayer(ns, i) ==
    IF i > Len(ns) THEN 0
    ELSE IF ns[i] \in {MediaTypeImageLayer, MediaTypeImageLayerGzip} THEN i
    ELSE PrefixImageLayer(ns, i + 1)

RECURSIVE FirstImageLayerOrFirst(_, _)
\* FirstImageLayer that falls back to the first node when the loop ends
\* without an image layer
FirstImageLayerOrFirst(ns, i) ==
    IF i > Len(ns) THEN 1
    ELSE IF ns[i] = MediaTypeImageLayer THEN i
    ELSE FirstImageLayerOrFirst(ns, i + 1)

RECURSIVE FirstImageLayer(_, _)
\* the for loop of the else branch, from index i: the index of the first
\* node whose MediaType is v1.MediaTypeImageLayer, 0 when the loop ends
FirstImageLayer(ns, i) ==
    IF i > Len(ns) THEN 0
    ELSE IF ns[i] = MediaTypeImageLayer THEN i
    ELSE FirstImageLayer(ns, i + 1)

\* what the single-successor branch returns for a fetched stream
SingleResult(p, f) == RawStream(1, f)

\* what the multi-successor branch returns for a fetched stream of node i
MultiResult(p, i, f) == OrasReadCloser(p, i, f)

\* Select with the successors visited in no fixed order: any image layer
\* may be the one returned
SelectAnyOrder(c) ==
    /\ pc[c] = "select"
    /\ IF Len(nodes[c]) = 1
       THEN \/ \E f \in BOOLEAN :
                  Return(c, SingleResult(fileStorePath[c], f), "single",
                         Fetched(steps[c], TRUE))
            \/ Return(c, Nil, "fetch", Fetched(steps[c], FALSE))
       ELSE IF FirstImageLayer(nodes[c], 1) # 0
            THEN \E i \in {j \in 1..Len(nodes[c]) :
                              nodes[c][j] = MediaTypeImageLayer} :
                 \/ \E f \in BOOLEAN :
                       Return(c, MultiResult(fileStorePath[c], i, f), "multi",
                              Fetched(steps[c], TRUE))
                 \/ Return(c, Nil, "fetch", Fetched(steps[c], FALSE))
            ELSE Return(c, Nil, "nolayer", steps[c])
    /\ UNCHANGED <<provider, opCtxDone, repoName, ctxDone, fileStorePath,
                   nodes, closes, closeRet, readRet, cache>>

\* Select whose loop goes on to the next image layer when the Fetch of the
\* first one fails
SelectTriesNext(c) ==
    /\ pc[c] = "select"
    /\ IF Len(nodes[c]) = 1
       THEN \/ \E f \in BOOLEAN :
                  Return(c, SingleResult(fileStorePath[c], f), "single",
                         Fetched(steps[c], TRUE))
            \/ Return(c, Nil, "fetch", Fetched(steps[c], FALSE))
       ELSE LET i == FirstImageLayer(nodes[c], 1) IN
            IF i # 0
            THEN \/ \E f \in BOOLEAN :
                       Return(c, MultiResult(fileStorePath[c], i, f), "multi",
                              Fetched(steps[c], TRUE))
                 \/ LET j == FirstImageLayer(nodes[c], i + 1)
                        st == Fetched(steps[c], FALSE) IN
                    IF j # 0
                    THEN \E f \in BOOLEAN :
                           Return(c, MultiResult(fileStorePath[c], j, f),
                                  "multi", Fetched(st, TRUE))
                    ELSE Return(c, Nil, "fetch", st)
            ELSE Return(c, Nil, "nolayer", steps[c])
    /\ UNCHANGED <<provider, opCtxDone, repoName, ctxDone, fileStorePath,
                   nodes, closes, closeRet, readRet, cache>>

\* the selection: if len(nodes) == 1 {...} else {for ...}; not found
Select(c) ==
    /\ pc[c] = "select"
    /\ IF Len(nodes[c]) = 1
       THEN \/ \E f \in BOOLEAN :
                  Return(c, SingleResult(fileStorePath[c], f), "single",
                         Fetched(steps[c], TRUE))
            \/ Return(c, Nil, "fetch", Fetched(steps[c], FALSE))
       ELSE LET i == FirstImageLayer(nodes[c], 1) IN
            IF i # 0
            THEN \/ \E f \in BOOLEAN :
                       Return(c, MultiResult(fileStorePath[c], i, f), "multi",
                              Fetched(steps[c], TRUE))
                 \/ Return(c, Nil, "fetch", Fetched(steps[c], FALSE))
            ELSE Return(c, Nil, "nolayer", steps[c])
    /\ UNCHANGED <<provider, opCtxDone, repoName, ctxDone, fileStorePath,
                   nodes, closes, closeRet, readRet, cache>>

(* ---- contexts -------------------------------------------------------- *)
InFlight(c) == pc[c] \notin {"idle", "done"}

\* the 60 s deadline of a call's ctx passes while the call runs
Timeout(c) ==
    /\ InFlight(c)
    /\ ~ctxDone[c]
    /\ ctxDone' = [ctxDone EXCEPT ![c] = TRUE]
    /\ UNCHANGED <<provider, opCtxDone, fs, pc, repoName, fileStorePath,
                   nodes, rc, exit, closes, closeRet, readRet, log, steps,
                   cache>>

\* the provider's parent context is cancelled
Cancel ==
    /\ ~opCtxDone
    /\ opCtxDone' = TRUE
    /\ ctxDone' = [c \in Calls |-> ctxDone[c] \/ InFlight(c)]
    /\ UNCHANGED <<provider, fs, pc, repoName, fileStorePath, nodes, rc,
                   exit, closes, closeRet, readRet, log, steps, cache>>

(* ---- streams --------------------------------------------------------- *)
\* return values of Close on the underlying stream: closing an *os.File
\* that is already closed fails with os.ErrClosed
UnderlyingClose(r) ==
    IF ~r.file THEN {"nil"}
    ELSE IF r.open THEN {"nil", "err"}
    ELSE {"ErrClosed"}

\* Close that returns the error of os.RemoveAll when the stream closed well
CloseReturnsRemoveError(c) ==
    /\ pc[c] = "done"
    /\ rc[c].kind # "nil"
    /\ closes[c] < MaxCloses
    /\ rc' = [rc EXCEPT ![c].open = FALSE]
    /\ closes' = [closes EXCEPT ![c] = @ + 1]
    /\ \E err \in UnderlyingClose(rc[c]) :
         IF rc[c].kind = "orc"
         THEN \E ok \in RemoveOutcomes :
                /\ fs' = IF ok THEN RemoveAll(fs, rc[c].path) ELSE fs
                /\ log' = [log EXCEPT ![c] = Append(@, LogCloseCleanup)]
                /\ steps' = [steps EXCEPT ![c] = Removal(@, ok)]
                /\ closeRet' = [closeRet EXCEPT ![c] =
                                  IF err = "nil" /\ ~ok THEN "rmerr" ELSE err]
         ELSE /\ closeRet' = [closeRet EXCEPT ![c] = err]
              /\ UNCHANGED <<fs, log, steps>>
    /\ UNCHANGED <<provider, opCtxDone, pc, repoName, ctxDone,
                   fileStorePath, nodes, exit, readRet, cache>>

\* (*orasReadCloser).Close, and Close of the stream Get returned directly
Close(c) ==
    /\ pc[c] = "done"
    /\ rc[c].kind # "nil"
    /\ closes[c] < MaxCloses
    /\ \E err \in UnderlyingClose(rc[c]) :
          closeRet' = [closeRet EXCEPT ![c] = err]
    /\ rc' = [rc EXCEPT ![c].open = FALSE]
    /\ closes' = [closes EXCEPT ![c] = @ + 1]
    /\ IF rc[c].kind = "orc"
       THEN \E ok \in RemoveOutcomes :
                /\ fs' = IF ok THEN RemoveAll(fs, rc[c].path) ELSE fs
                /\ log' = [log EXCEPT ![c] = Append(@, LogCloseCleanup)]
                /\ steps' = [steps EXCEPT ![c] = Removal(@, ok)]
       ELSE UNCHANGED <<fs, log, steps>>
    /\ UNCHANGED <<provider, opCtxDone, pc, repoName, ctxDone,
                   fileStorePath, nodes, exit, readRet, cache>>

\* outcome of Read on the underlying stream: an *os.File that is closed
\* fails with os.ErrClosed
UnderlyingRead(r) == IF r.file /\ ~r.open THEN "ErrClosed" ELSE "ok"

\* (*orasReadCloser).Read, and Read of the stream Get returned directly
Read(c) ==
    /\ pc[c] = "done"
    /\ rc[c].kind # "nil"
    /\ readRet' = [readRet EXCEPT ![c] = UnderlyingRead(rc[c])]
    /\ UNCHANGED <<provider, opCtxDone, fs, pc, repoName, ctxDone,
                   fileStorePath, nodes, rc, exit, closes, closeRet, log,
                   steps, cache>>

(* ---- specifications -------------------------------------------------- *)
InitCalls ==
    /\ opCtxDone = FALSE
    /\ fs = [n \in Names |-> 0]
    /\ pc = [c \in Calls |-> "idle"]
    /\ repoName = [c \in Calls |-> <<>>]
    /\ ctxDone = [c \in Calls |-> FALSE]
    /\ fileStorePath = [c \in Calls |-> 0]
    /\ nodes = [c \in Calls |-> <<>>]
    /\ rc = [c \in Calls |-> Nil]
    /\ exit = [c \in Calls |-> "none"]
    /\ closes = [c \in Calls |-> 0]
    /\ closeRet = [c \in Calls |-> "nil"]
    /\ readRet = [c \in Calls |-> "none"]
    /\ log = [c \in Calls |-> <<>>]
    /\ steps = [c \in Calls |-> Steps0]
    /\ cache = {}

\* nothing asked of the credential function or the name builder
InitProbes ==
    /\ credTarget = <<>>
    /\ credOut = EmptyCredential
    /\ nameIn = [prefix |-> <<>>, artifact |-> <<>>]
    /\ nameOut = <<>>

\* Provider(ctx, u, b, options setting the credentials k) returned a provider
Constructed(u, b, k) ==
    LET p == ProviderResult(u, b) IN
    /\ p.err = ""
    /\ cfg = [url |-> u, base |-> b]
    /\ built = "ok"
    /\ opHost = p.host
    /\ urlPath = p.path
    /\ basePath = b
    /\ opCreds = k

\* after Provider(ctx, registryURL, fileStoreBasePath) returned a provider
Init ==
    /\ \E u \in URLs, b \in BasePaths : Constructed(u, b, EmptyCredential)
    /\ remote \in Graphs
    /\ faulty = FALSE
    /\ InitCalls
    /\ InitProbes

Next ==
    \/ \E c \in Calls, a \in Artifacts : GetStart(c, a)
    \/ \E c \in Calls : Repository(c)
    \/ \E c \in Calls : MkdirTemp(c)
    \/ \E c \in Calls : FileNew(c)
    \/ \E c \in Calls : Copy(c)
    \/ \E c \in Calls : Successors(c)
    \/ \E c \in Calls : Select(c)
    \/ \E c \in Calls : Timeout(c)
    \/ Cancel
    \/ \E c \in Calls : Close(c)
    \/ \E c \in Calls : Read(c)

Spec == Init /\ [][Next]_vars

\* the same provider on a file system where os.RemoveAll may fail
InitFault ==
    /\ \E u \in URLs, b \in BasePaths : Constructed(u, b, EmptyCredential)
    /\ remote \in Graphs
    /\ faulty = TRUE
    /\ InitCalls
    /\ InitProbes

SpecFault == InitFault /\ [][Next]_vars

\* before Provider is called
InitProvider ==
    /\ cfg = NoCfg
    /\ built = "no"
    /\ opHost = <<>>
    /\ urlPath = <<>>
    /\ basePath = <<>>
    /\ opCreds = EmptyCredential
    /\ remote \in Graphs
    /\ faulty = FALSE
    /\ InitCalls
    /\ InitProbes

NextProvider ==
    \/ \E u \in URLs, b \in BasePaths : ProviderNew(u, b)
    \/ Next

SpecProvider == InitProvider /\ [][NextProvider]_vars

\* a provider constructed with credential options
InitCreds ==
    /\ \E k \in AllCreds, u \in CredUrls : Constructed(u, <<"/", "t">>, k)
    /\ remote = <<>>
    /\ faulty = FALSE
    /\ InitCalls
    /\ InitProbes

NextCreds == \E t \in Targets : CredsCall(t)

SpecCreds == InitCreds /\ [][NextCreds]_vars

\* a prefix and an artifact name for the name builder
InitRepoName ==
    /\ Constructed(UrlHost, <<"/", "t">>, EmptyCredential)
    /\ remote = <<>>
    /\ faulty = FALSE
    /\ InitCalls
    /\ credTarget = <<>>
    /\ credOut = EmptyCredential
    /\ nameIn \in [prefix : UrlPaths, artifact : NameStrings]
    /\ nameOut = <<>>

SpecRepoName == InitRepoName /\ [][BuildNames]_vars

(* ---- properties ------------------------------------------------------ *)
Returns(c) == pc[c] # "done" /\ pc'[c] = "done"

\* the stream a call returned is an orasReadCloser that owns the call's store
OwnsStore(c) == rc[c].kind = "orc" /\ rc[c].path = fileStorePath[c]

\* C1: once no Get call is running and every returned stream has been
\* closed, no temporary file store created by a Get call exists
C1_NoLeak ==
    (\A c \in Calls : /\ ~InFlight(c)
                      /\ rc[c].kind # "nil" => closes[c] >= 1)
    => \A c \in Calls : ~StoreExists(c)

\* C2: every store a returned Get call created has exactly one release
\* path: Get's cleanup removed it and Get returned nil, or Get returned a
\* stream whose Close removes it
C2_ExactlyOneRelease ==
    \A c \in Calls :
        pc[c] = "done" /\ fileStorePath[c] # 0 =>
            \/ rc[c].kind = "nil" /\ ~StoreExists(c)
            \/ OwnsStore(c)

\* C3: after the first Close of a returned stream, the store of the call
\* that returned it does not exist
C3_CloseRemovesStore ==
    \A c \in Calls : closes[c] >= 1 => ~StoreExists(c)

FailureExits == {"new", "copy", "succ", "fetch", "nolayer"}

BeforeCopied == {"repo", "mkdir", "new", "copy"}

\* C6: a call whose ctx is done before the copy completed never gets past
\* the copy and returns nil with its store removed; and whenever a call
\* whose ctx is done returns, its store is removed or owned by the
\* returned stream
C6_TimeoutNeverLeavesStore ==
    [][\A c \in Calls :
           /\ ctxDone[c] /\ pc[c] \in BeforeCopied /\ pc'[c] # pc[c] =>
                  /\ pc'[c] \in BeforeCopied \cup {"done"}
                  /\ pc'[c] = "done" => rc'[c] = Nil /\ ~StoreExists(c)'
           /\ ctxDone[c] /\ Returns(c) =>
                  ~StoreExists(c)' \/ OwnsStore(c)']_vars

\* a call holds a store: it runs and has created one, or it returned a
\* stream that was not closed yet
HoldsStore(c) ==
    \/ InFlight(c) /\ fileStorePath[c] # 0
    \/ pc[c] = "done" /\ rc[c].kind # "nil" /\ closes[c] = 0

\* the call c takes a step
Acts(c) == pc'[c] # pc[c] \/ closes'[c] # closes[c]

\* C7: calls that hold a store hold different directories, and no step of
\* one call (its cleanup, or a Close of its stream) removes or replaces
\* the directory another call created
C7_Isolation ==
    [][/\ \A c, d \in Calls :
              c # d /\ HoldsStore(c)' /\ HoldsStore(d)' =>
                  fileStorePath'[c] # fileStorePath'[d]
       /\ \A c \in Calls, n \in Names :
              Acts(c) /\ fs[n] \notin {0, c} => fs'[n] = fs[n]]_vars

\* C8: a call that found exactly one successor and fetched it returned an
\* orasReadCloser over that node that owns the call's store
C8_SingleSuccessor ==
    \A c \in Calls :
        pc[c] = "done" /\ Len(nodes[c]) = 1 /\ exit[c] # "fetch" =>
            rc[c].node = 1 /\ OwnsStore(c)

\* indices of the image-layer successors
ImageLayers(ns) == {i \in 1..Len(ns) : ns[i] = MediaTypeImageLayer}

\* C9: a call that found more than one successor returned nil when none is
\* an image layer; otherwise the stream it returned reads the image-layer
\* successor of least index, and it returned nil only if fetching that
\* successor failed
C9_MultiSuccessor ==
    \A c \in Calls :
        pc[c] = "done" /\ Len(nodes[c]) > 1 =>
            LET L == ImageLayers(nodes[c]) IN
            /\ L = {} => rc[c] = Nil /\ exit[c] = "nolayer"
            /\ L # {} /\ rc[c].kind # "nil" =>
                   /\ rc[c].node \in L
                   /\ \A j \in L : rc[c].node <= j
            /\ L # {} /\ rc[c].kind = "nil" => exit[c] = "fetch"

C9_Witness ==
    \E c \in Calls :
        /\ pc[c] = "done" /\ Len(nodes[c]) = 3
        /\ nodes[c][1] = MediaTypeImageLayerGzip
        /\ nodes[c][2] = MediaTypeImageLayer
        /\ nodes[c][3] = MediaTypeImageLayer
        /\ rc[c].node = 2

\* C10: a second Close of a returned stream returns nil and leaves the
\* file system as it was
C10_SecondCloseNoOp ==
    [][\A c \in Calls :
           closes[c] >= 1 /\ closes'[c] = closes[c] + 1 =>
               closeRet'[c] = "nil" /\ fs' = fs]_vars

\* C11: Close of an orasReadCloser returns what Close of the underlying
\* stream returned, calls os.RemoveAll once whatever that was, and returns
\* the same whether os.RemoveAll failed or not
C11_CloseReturnsStreamError ==
    [][\A c \in Calls :
           closes'[c] = closes[c] + 1 /\ rc[c].kind = "orc" =>
               /\ closeRet'[c] \in UnderlyingClose(rc[c])
               /\ steps'[c].rm = steps[c].rm + 1
               /\ fs'[rc[c].path] \in {0, fs[rc[c].path]}]_vars

C11_Witness ==
    \E c, d \in Calls :
        /\ rc[c].kind = "orc" /\ closes[c] = 1
        /\ steps[c].rmFail = 1 /\ closeRet[c] = "nil"
        /\ rc[d].kind = "orc" /\ closes[d] = 1
        /\ steps[d].rm = 1 /\ steps[d].rmFail = 0 /\ closeRet[d] = "err"

\* C12: a call creates its store only after op.registry.Repository
\* accepted the repository name; a call whose name is rejected returns nil,
\* has never called os.MkdirTemp and owns no directory
C12_ResolveBeforeStore ==
    \A c \in Calls :
        /\ steps[c].mkdir > 0 \/ fileStorePath[c] # 0 =>
               steps[c].repo = 1 /\ ValidRepository(repoName[c])
        /\ pc[c] \notin {"idle", "repo"} /\ ~ValidRepository(repoName[c]) =>
               /\ pc[c] = "done" /\ exit[c] = "repo" /\ rc[c] = Nil
               /\ steps[c].mkdir = 0 /\ fileStorePath[c] = 0
               /\ \A n \in Names : fs[n] # c

C12_Witness ==
    \E c \in Calls :
        exit[c] = "repo" /\ repoName[c] = <<"X">> /\ steps[c].repo = 1

\* the provider Provider is expected to return for a registry URL
ExpectedHost(u) ==
    CASE u = UrlHost     -> <<"h">>
      [] u = UrlHostPath -> <<"h">>
      [] u = UrlZone     -> <<"[", ":", ":", "1", "%", "e", "]">>
      [] OTHER           -> <<>>

ExpectedPath(u) ==
    CASE u = UrlHost     -> <<>>
      [] u = UrlHostPath -> <<"/", "p">>
      [] u = UrlZone     -> <<"/", "p">>
      [] OTHER           -> <<>>

\* the three failures C13 names: empty base path, unparsable URL, a scheme
\* other than "oci"
NamedFailure ==
    \/ cfg.base = <<>>
    \/ cfg.url = UrlBad
    \/ cfg.url \in {UrlHttp, UrlNoScheme}

\* what C13 says of a provider: bound to the URL's host, the URL's path as
\* prefix, the base path kept; and calls run only on a provider
ProviderAsGiven ==
    /\ built = "ok"
    /\ opHost = ExpectedHost(cfg.url)
    /\ urlPath = ExpectedPath(cfg.url)
    /\ basePath = cfg.base

\* C13 as stated: Provider fails exactly for the three named failures and
\* returns a provider for every other input; no Get runs without one
C13_ConstructionFailures ==
    /\ built # "no" =>
           /\ NamedFailure => built = "err"
           /\ ~NamedFailure => ProviderAsGiven
    /\ \A c \in Calls : pc[c] # "idle" => built = "ok" /\ ~NamedFailure

\* C13 as amended: Provider also fails when remote.NewRegistry rejects the
\* URL's host
C13_ConstructionFailuresWithClient ==
    /\ built # "no" =>
           /\ NamedFailure \/ cfg.url = UrlZone => built = "err"
           /\ ~(NamedFailure \/ cfg.url = UrlZone) => ProviderAsGiven
    /\ \A c \in Calls : pc[c] # "idle" => built = "ok" /\ ~NamedFailure

C13_Witness ==
    /\ built = "ok" /\ cfg.url = UrlHostPath /\ urlPath = <<"/", "p">>
    /\ \E c \in Calls : pc[c] = "done" /\ rc[c].kind # "nil"

\* C14: the credential function returns the provider's credentials for
\* the registry host and auth.EmptyCredential for every other target,
\* whatever the provider's credentials are
C14_CredentialConfinement ==
    credTarget # <<>> =>
        /\ credTarget = opHost => credOut = opCreds
        /\ credTarget # opHost =>
               /\ credOut = EmptyCredential
               /\ \A k \in AllCreds : Creds(k, opHost, credTarget) = credOut

C14_Witness ==
    /\ credTarget # <<>> /\ credTarget # opHost
    /\ opCreds.username = "user" /\ opCreds.password = "pass"
    /\ credOut = EmptyCredential

\* the artifact name has a "." or ".." path element
HasDotElement(x) ==
    \E i \in 1..Len(Split(x)) : Split(x)[i] \in {<<".">>, <<".", ".">>}

NoLeadingSeparator(s) == s = <<>> \/ s[1] # "/"

\* C15 as stated: a repository name never begins with "/", and an artifact
\* name and "/" + that name give the same repository name
C15_SameNameForEveryArtifact ==
    nameOut # <<>> =>
        /\ NoLeadingSeparator(nameOut[1]) /\ NoLeadingSeparator(nameOut[2])
        /\ nameOut[1] = nameOut[2]

\* C15 as amended: the two names are equal when the prefix is not empty or
\* the artifact name has no "." or ".." element
C15_SameNameWithoutDots ==
    nameOut # <<>> =>
        /\ NoLeadingSeparator(nameOut[1]) /\ NoLeadingSeparator(nameOut[2])
        /\ nameIn.prefix # <<>> \/ ~HasDotElement(nameIn.artifact) =>
               nameOut[1] = nameOut[2]

C15_Witness ==
    /\ nameIn.prefix = <<>> /\ nameIn.artifact = <<"a", "/", "a">>
    /\ nameOut = << <<"a", "/", "a">>, <<"a", "/", "a">> >>

\* the call enumerated the successors and went through the selection
Selected(c) == exit[c] \in {"single", "multi", "fetch", "nolayer"}

\* C16 as stated: two returned calls for the same repository name both
\* return nil or both return a stream over the same node
C16_SameOutcome ==
    \A c, d \in Calls :
        pc[c] = "done" /\ pc[d] = "done" /\ repoName[c] = repoName[d] =>
            \/ rc[c].kind = "nil" /\ rc[d].kind = "nil"
            \/ /\ rc[c].kind # "nil" /\ rc[d].kind # "nil"
               /\ rc[c].node = rc[d].node

\* C16 as amended: two calls for the same repository name that both went
\* through the selection decide alike: both find no payload node or
\* neither does, and streams they return read the same node of the graph
C16_SameSelection ==
    \A c, d \in Calls :
        Selected(c) /\ Selected(d) /\ repoName[c] = repoName[d] =>
            /\ nodes[c] = remote /\ nodes[d] = remote
            /\ exit[c] = "nolayer" <=> exit[d] = "nolayer"
            /\ rc[c].kind # "nil" /\ rc[d].kind # "nil" =>
                   rc[c].node = rc[d].node /\ rc[c].kind = rc[d].kind

C16_Witness ==
    \E c, d \in Calls :
        /\ c # d /\ repoName[c] = repoName[d]
        /\ rc[c].kind # "nil" /\ rc[d].kind # "nil"
        /\ Len(remote) = 3
        /\ remote[2] = MediaTypeImageLayer /\ remote[3] = MediaTypeImageLayer
        /\ rc[c].node = rc[d].node

\* C17: a call returns a stream only when its one oras.Copy succeeded, it
\* enumerated the successors of the copied graph, and the stream reads one
\* of them: the only successor, or an image layer
C17_StreamAfterSelection ==
    \A c \in Calls :
        rc[c].kind # "nil" =>
            /\ pc[c] = "done" /\ exit[c] \in {"single", "multi"}
            /\ steps[c].copy = 1 /\ steps[c].copied
            /\ nodes[c] = remote
            /\ rc[c].node \in 1..Len(nodes[c])
            /\ Len(nodes[c]) = 1 \/ nodes[c][rc[c].node] = MediaTypeImageLayer
            /\ rc[c].open \/ closes[c] > 0

C17_Witness ==
    \E c \in Calls :
        /\ rc[c].kind = "orc" /\ rc[c].open
        /\ nodes[c] = <<MediaTypeImageLayer, MediaTypeImageLayer>>
        /\ rc[c].node = 1

\* the message C18 expects for a failure return of Get
ExpectedLog(e) ==
    CASE e = "repo"    -> LogRepo
      [] e = "mkdir"   -> LogMkdir
      [] e = "new"     -> LogNew
      [] e = "copy"    -> LogCopy
      [] e = "succ"    -> LogSucc
      [] e = "fetch"   -> LogFetch
      [] e = "nolayer" -> LogNoLayer

FailureLogs ==
    {LogRepo, LogMkdir, LogNew, LogCopy, LogSucc, LogFetch, LogNoLayer}

\* messages the step added to the log of call c
Logged(c) == {log'[c][i] : i \in (Len(log[c]) + 1)..Len(log'[c])}

\* C18: a Get call that returns through a failure branch has logged the
\* failure, and a step in which os.RemoveAll failed has logged a message
\* for it (one other than the announcements made before the removal)
C18_FailuresLogged ==
    [][\A c \in Calls :
           /\ Returns(c) /\ exit'[c] \notin {"single", "multi"} =>
                  ExpectedLog(exit'[c]) \in Logged(c)
           /\ steps'[c].rmFail > steps[c].rmFail =>
                  Logged(c) \ (FailureLogs \cup {LogCleanup, LogCloseCleanup})
                      # {}]_vars

\* C19: a call makes at most one call each of op.registry.Repository,
\* os.MkdirTemp and oras.Copy, returns nil as soon as one of them fails,
\* and os.RemoveAll is called once by the cleanup or once by each Close
C19_NoRetry ==
    \A c \in Calls :
        /\ steps[c].repo <= 1 /\ steps[c].mkdir <= 1 /\ steps[c].copy <= 1
        /\ steps[c].copy = 1 /\ ~steps[c].copied =>
               pc[c] = "done" /\ exit[c] = "copy" /\ rc[c] = Nil
        /\ steps[c].mkdir = 1 /\ fileStorePath[c] = 0 =>
               pc[c] = "done" /\ exit[c] = "mkdir" /\ rc[c] = Nil
        /\ steps[c].rm <= (IF rc[c].kind = "orc" THEN closes[c] ELSE 1)
        /\ steps[c].rmFail <= steps[c].rm

C19_Witness ==
    \E c, d \in Calls :
        /\ exit[c] = "copy" /\ steps[c].copy = 1
        /\ steps[c].rm = 1 /\ steps[c].rmFail = 1 /\ StoreExists(c)
        /\ exit[d] = "mkdir" /\ steps[d].mkdir = 1

\* the steps of a running call
CallStep(c) ==
    \/ Repository(c) \/ MkdirTemp(c) \/ FileNew(c) \/ Copy(c)
    \/ Successors(c) \/ Select(c)

\* C20: no step changes the provider's fields, a step of a call leaves
\* op.ctx as it is, and a running call can always take its next step
\* whatever the other calls are doing
C20_ProviderUnchanged ==
    /\ [][/\ UNCHANGED opFields
          /\ (\E c \in Calls : Acts(c) \/ readRet'[c] # readRet[c]) =>
                 opCtxDone' = opCtxDone]_vars
    /\ [](\A c \in Calls : InFlight(c) => ENABLED CallStep(c))

C20_Witness ==
    /\ cache # {}
    /\ \E c \in Calls : closes[c] = 1 /\ readRet[c] = "ok"
    /\ \E c \in Calls : InFlight(c)

\* C21: the store of a call that returned a stream exists for as long as
\* the stream has not been closed
C21_OpenHandleLiveStore ==
    \A c \in Calls :
        pc[c] = "done" /\ rc[c].kind # "nil" /\ closes[c] = 0 =>
            StoreExists(c)

====
